---------------------------- MODULE Spec2Model ----------------------------
(***************************************************************************)
(* Document registry: the DocumentVerification contract (the ledger) and   *)
(* the /api/documents and /api/verify routes over the MongoDB Document and *)
(* AuditLog collections (the off-chain mirror).                            *)
(*                                                                         *)
(* The contract and the API server share no state: no route calls the      *)
(* contract and the contract knows nothing of the database.  A behaviour   *)
(* therefore exercises one of the two, chosen by `side` in Init; an        *)
(* invariant that is a conjunction of a contract part and a mirror part    *)
(* holds of both deployables iff it holds on each side.                    *)
(*                                                                         *)
(* The client-side code is exercised on its own in the same way: the hash  *)
(* format check of utils/crypto under SpecCodec (side = "codec") and the   *)
(* FileUpload component under SpecUpload (side = "upload").                *)
(*                                                                         *)
(* Strings are sequences of one-character strings, so that length, the     *)
(* hash regular expression and toLowerCase are computed, not assumed.      *)
(***************************************************************************)
EXTENDS Integers, Sequences, FiniteSets, TLC

VARIABLES
    side,             \* "chain": the contract is exercised; "mirror": the API
    documents,        \* contract: mapping(string => Document)
    ownerDocuments,   \* contract: mapping(address => string[])
    issuerDocuments,  \* contract: mapping(address => string[])
    events,           \* contract: the event log, in emission order
    dbDocs,           \* mirror: the Document collection, in insertion order
    auditLogs,        \* mirror: the AuditLog collection, in insertion order
    req,              \* mirror: the request handlers in flight, per slot
    started,          \* mirror: number of requests started so far
    response,         \* mirror: the response of the last request to complete
    checked,          \* client: the last call of isValidHash and its result
    uploadedFiles,    \* FileUpload: the uploadedFiles state, in list order
    drops,            \* FileUpload: the onDrop handlers waiting on hashFile
    uploads,          \* FileUpload: the uploadToBlockchain handlers waiting
    nextFile          \* FileUpload: the next File object to be dropped

chainVars == <<documents, ownerDocuments, issuerDocuments, events>>
mirrorVars == <<dbDocs, auditLogs, req, started, response>>
clientVars == <<checked, uploadedFiles, drops, uploads, nextFile>>
vars == <<side, documents, ownerDocuments, issuerDocuments, events,
          dbDocs, auditLogs, req, started, response, checked,
          uploadedFiles, drops, uploads, nextFile>>

---------------------------------------------------------------------------
(* Bounds of the model *)

\* successful contract transactions explored (each emits one event)
MaxEvents == 3
\* API requests started in one behaviour
MaxRequests == 3

---------------------------------------------------------------------------
(* Strings *)

\* the character c repeated n times
Rep(c, n) == [i \in 1..n |-> c]

Digits == {"0", "1", "2", "3", "4", "5", "6", "7", "8", "9"}
LowerHexLetters == {"a", "b", "c", "d", "e", "f"}
UpperHexLetters == {"A", "B", "C", "D", "E", "F"}

\* String.prototype.toLowerCase on one character of the alphabet in use
ToLowerChar(c) ==
    CASE c = "A" -> "a" [] c = "B" -> "b" [] c = "C" -> "c"
      [] c = "D" -> "d" [] c = "E" -> "e" [] c = "F" -> "f"
      [] c = "G" -> "g" [] c = "X" -> "x"
      [] OTHER -> c

ToLowerCase(s) == [i \in 1..Len(s) |-> ToLowerChar(s[i])]

\* length of a SHA-256 digest in hexadecimal characters
HashLen == 64

\* /^[a-f0-9]{64}$/i : the i flag admits both letter cases
IsValidHashCaseSensitive(hash) ==
    /\ Len(hash) = HashLen
    /\ \A i \in 1..Len(hash) : hash[i] \in Digits \cup LowerHexLetters

IsValidHash(hash) ==
    /\ Len(hash) = HashLen
    /\ \A i \in 1..Len(hash) :
          hash[i] \in Digits \cup LowerHexLetters \cup UpperHexLetters

\* the hash inputs explored
HashLower == Rep("a", HashLen)
HashUpper == Rep("A", HashLen)
HashNonHex == Rep("g", HashLen)
HashShort == Rep("a", HashLen - 1)
HashLong == Rep("a", HashLen + 1)
HashEmpty == <<>>

HashInputs == {HashLower, HashUpper, HashNonHex, HashShort, HashLong, HashEmpty}

\* two inputs denote the same digest when they differ in letter case only
SameDigest(x, y) == ToLowerCase(x) = ToLowerCase(y)

---------------------------------------------------------------------------
(* The contract DocumentVerification *)

\* address(0), and the accounts explored: an issuer and two users
ZeroAddress == "0x0"
Accounts == {"I1", "U1", "U2"}
Addresses == {ZeroAddress} \cup Accounts

\* the inputs explored: who stores and for whom, and the keys that
\* revokeDocument and transferDocument are called on (each may or may not
\* hold a document; a key of another length never does)
StoreSenders == {"I1", "U1"}
StoreOwners == {ZeroAddress, "U1", "U2"}
StoredHashes == {HashLower, HashUpper, HashNonHex}

Metadatas == {"m1"}

\* the value a mapping returns for a key never written
EmptyDocument ==
    [documentHash |-> <<>>, metadata |-> "", owner |-> ZeroAddress,
     issuer |-> ZeroAddress, timestamp |-> 0, isActive |-> FALSE]

\* bytes(doc.documentHash).length > 0
DocExists(h) == Len(documents[h].documentHash) > 0

\* block.timestamp: a logical clock, one tick per committed transaction
BlockTimestamp == Len(events) + 1

\* the require statements of storeDocument, in order; "" when all pass
StoreRevertNoExistsCheck(sender, h, m, o) ==
    IF Len(h) # HashLen THEN "Invalid hash length"
    ELSE IF o = ZeroAddress THEN "Invalid owner address"
    ELSE ""

StoreRevert(sender, h, m, o) ==
    IF Len(h) # HashLen THEN "Invalid hash length"
    ELSE IF Len(documents[h].documentHash) # 0 THEN "Document already exists"
    ELSE IF o = ZeroAddress THEN "Invalid owner address"
    ELSE ""

\* storeDocument with the issuer index filed under the owner
storeDocumentIssuerUnderOwner(sender, h, m, o) ==
    LET why == StoreRevert(sender, h, m, o) IN
    IF why # ""
    THEN UNCHANGED chainVars
    ELSE /\ Len(events) < MaxEvents
         /\ documents' = [documents EXCEPT ![h] =
               [documentHash |-> h, metadata |-> m, owner |-> o,
                issuer |-> sender, timestamp |-> BlockTimestamp,
                isActive |-> TRUE]]
         /\ ownerDocuments' = [ownerDocuments EXCEPT ![o] = Append(@, h)]
         /\ issuerDocuments' = [issuerDocuments EXCEPT ![o] = Append(@, h)]
         /\ events' = Append(events,
               [name |-> "DocumentStored", documentHash |-> h, owner |-> o,
                issuer |-> sender, timestamp |-> BlockTimestamp])

storeDocument(sender, h, m, o) ==
    LET why == StoreRevert(sender, h, m, o) IN
    IF why # ""
    THEN UNCHANGED chainVars
    ELSE /\ Len(events) < MaxEvents
         /\ documents' = [documents EXCEPT ![h] =
               [documentHash |-> h, metadata |-> m, owner |-> o,
                issuer |-> sender, timestamp |-> BlockTimestamp,
                isActive |-> TRUE]]
         /\ ownerDocuments' = [ownerDocuments EXCEPT ![o] = Append(@, h)]
         /\ issuerDocuments' =
               [issuerDocuments EXCEPT ![sender] = Append(@, h)]
         /\ events' = Append(events,
               [name |-> "DocumentStored", documentHash |-> h, owner |-> o,
                issuer |-> sender, timestamp |-> BlockTimestamp])

\* verifyDocument: a view; the tuple it returns, as a record
verifyDocument(h) ==
    LET doc == documents[h] IN
    IF Len(doc.documentHash) > 0
    THEN [exists |-> TRUE, metadata |-> doc.metadata, owner |-> doc.owner,
          issuer |-> doc.issuer, timestamp |-> doc.timestamp,
          isActive |-> doc.isActive]
    ELSE [exists |-> FALSE, metadata |-> "", owner |-> ZeroAddress,
          issuer |-> ZeroAddress, timestamp |-> 0, isActive |-> FALSE]

\* the require statements of revokeDocument, in order
RevokeRevertNoActiveCheck(sender, h) ==
    LET doc == documents[h] IN
    IF ~(Len(doc.documentHash) > 0) THEN "Document does not exist"
    ELSE IF ~(sender = doc.issuer \/ sender = doc.owner)
         THEN "Only issuer or owner can revoke"
    ELSE ""

RevokeRevert(sender, h) ==
    LET doc == documents[h] IN
    IF ~(Len(doc.documentHash) > 0) THEN "Document does not exist"
    ELSE IF ~(sender = doc.issuer \/ sender = doc.owner)
         THEN "Only issuer or owner can revoke"
    ELSE IF ~doc.isActive THEN "Document already revoked"
    ELSE ""

revokeDocument(sender, h) ==
    LET why == RevokeRevert(sender, h) IN
    IF why # ""
    THEN UNCHANGED chainVars
    ELSE /\ Len(events) < MaxEvents
         /\ documents' = [documents EXCEPT ![h].isActive = FALSE]
         /\ events' = Append(events,
               [name |-> "DocumentRevoked", documentHash |-> h,
                revokedBy |-> sender, timestamp |-> BlockTimestamp])
         /\ UNCHANGED <<ownerDocuments, issuerDocuments>>

\* the require statements of transferDocument, in order
TransferRevertNoOwnerCheck(sender, h, newOwner) ==
    LET doc == documents[h] IN
    IF ~(Len(doc.documentHash) > 0) THEN "Document does not exist"
    ELSE IF sender # doc.owner THEN "Only owner can transfer"
    ELSE IF ~doc.isActive THEN "Cannot transfer revoked document"
    ELSE ""

TransferRevertNoSenderCheck(sender, h, newOwner) ==
    LET doc == documents[h] IN
    IF ~(Len(doc.documentHash) > 0) THEN "Document does not exist"
    ELSE IF newOwner = ZeroAddress THEN "Invalid new owner address"
    ELSE IF ~doc.isActive THEN "Cannot transfer revoked document"
    ELSE ""

TransferRevert(sender, h, newOwner) ==
    LET doc == documents[h] IN
    IF ~(Len(doc.documentHash) > 0) THEN "Document does not exist"
    ELSE IF sender # doc.owner THEN "Only owner can transfer"
    ELSE IF newOwner = ZeroAddress THEN "Invalid new owner address"
    ELSE IF ~doc.isActive THEN "Cannot transfer revoked document"
    ELSE ""

\* index of the first element of docs equal to h, 0 when there is none
FirstIndexOfNoCompare(docs, h) == IF Len(docs) > 0 THEN 1 ELSE 0

FirstIndexOf(docs, h) ==
    IF \E i \in 1..Len(docs) : docs[i] = h
    THEN CHOOSE i \in 1..Len(docs) :
            /\ docs[i] = h
            /\ \A j \in 1..(i - 1) : docs[j] # h
    ELSE 0

\* the removal loop: overwrite the first match with the last element, pop
SwapRemoveNothing(docs, h) == docs

\* the removal loop without its overwrite: the last element is popped
SwapRemovePopOnly(docs, h) ==
    IF FirstIndexOf(docs, h) = 0 THEN docs
    ELSE SubSeq(docs, 1, Len(docs) - 1)

SwapRemove(docs, h) ==
    LET i == FirstIndexOf(docs, h) IN
    IF i = 0 THEN docs
    ELSE SubSeq([docs EXCEPT ![i] = docs[Len(docs)]], 1, Len(docs) - 1)

transferDocument(sender, h, newOwner) ==
    LET why == TransferRevert(sender, h, newOwner) IN
    IF why # ""
    THEN UNCHANGED chainVars
    ELSE LET oldOwner == documents[h].owner
             pushed == [ownerDocuments EXCEPT ![newOwner] = Append(@, h)]
         IN /\ Len(events) < MaxEvents
            /\ documents' = [documents EXCEPT ![h].owner = newOwner]
            /\ ownerDocuments' =
                  [pushed EXCEPT ![oldOwner] = SwapRemove(@, h)]
            /\ events' = Append(events,
                  [name |-> "DocumentTransferred", documentHash |-> h,
                   from |-> oldOwner, to |-> newOwner,
                   timestamp |-> BlockTimestamp])
               /\ UNCHANGED issuerDocuments

StoreTx ==
    /\ side = "chain"
    /\ \E sender \in StoreSenders, h \in HashInputs, m \in Metadatas,
          o \in StoreOwners :
           storeDocument(sender, h, m, o)
    /\ UNCHANGED <<side, clientVars, dbDocs, auditLogs, req, started, response>>

RevokeTx ==
    /\ side = "chain"
    /\ \E sender \in Accounts, h \in StoredHashes : revokeDocument(sender, h)
    /\ UNCHANGED <<side, clientVars, dbDocs, auditLogs, req, started, response>>

TransferTx ==
    /\ side = "chain"
    /\ \E sender \in Accounts, h \in StoredHashes, n \in Addresses :
           transferDocument(sender, h, n)
    /\ UNCHANGED <<side, clientVars, dbDocs, auditLogs, req, started, response>>

---------------------------------------------------------------------------
(* The API server: strings it handles *)

\* a value is falsy in JavaScript when it is absent or the empty string
Absent == <<>>
Truthy(s) == Len(s) > 0

\* number of hexadecimal characters of an account address, after "0x"
AddressHexLen == 40

\* /^0x[a-fA-F0-9]{40}$/
IsValidAddress(a) ==
    /\ Len(a) = 2 + AddressHexLen
    /\ a[1] = "0"
    /\ a[2] = "x"
    /\ \A i \in 3..Len(a) :
          a[i] \in Digits \cup LowerHexLetters \cup UpperHexLetters

\* the addresses explored
AddrOf(c) == <<"0", "x">> \o Rep(c, AddressHexLen)
AddrIssuer == AddrOf("1")
AddrOwner1 == AddrOf("a")
AddrOwner2 == AddrOf("2")
AddrStranger == AddrOf("3")
\* the literals the routes substitute for an absent address, and a bad input
StrUnknown == <<"u", "n", "k", "n", "o", "w", "n">>
StrAnonymous == <<"a", "n", "o", "n", "y", "m", "o", "u", "s">>
AddrMalformed == <<"0", "x", "z">>

\* a || b
OrElse(a, b) == IF Truthy(a) THEN a ELSE b

---------------------------------------------------------------------------
(* The API server: collections *)

\* Document.findOne({ documentHash }): exact match on the stored string;
\* the index in the collection of the first match, 0 when there is none
FindOne(documentHash) ==
    IF \E i \in 1..Len(dbDocs) : dbDocs[i].documentHash = documentHash
    THEN CHOOSE i \in 1..Len(dbDocs) :
            /\ dbDocs[i].documentHash = documentHash
            /\ \A j \in 1..(i - 1) : dbDocs[j].documentHash # documentHash
    ELSE 0

\* DocumentSchema validation of the paths the routes set
DocumentValid(d) ==
    /\ IsValidHash(d.documentHash)
    /\ d.title # ""
    /\ d.issuer # ""
    /\ IsValidAddress(d.issuerAddress)
    /\ d.owner # ""
    /\ IsValidAddress(d.ownerAddress)

\* the unique index on documentHash: an insert of a present key is refused
UniqueIndexAdmits(documentHash) ==
    \A i \in 1..Len(dbDocs) : dbDocs[i].documentHash # documentHash

\* AuditLogSchema validation: action is one of the enum, documentHash and
\* userAddress match their patterns
AuditActions ==
    {"document_created", "document_verified", "document_revoked",
     "document_transferred", "document_viewed", "document_shared",
     "document_downloaded"}

AuditValid(entry) ==
    /\ entry.action \in AuditActions
    /\ IsValidHash(entry.documentHash)
    /\ IsValidAddress(entry.userAddress)

\* AuditLog.logAction(action, documentHash, userAddress, options)
LogEntry(action, documentHash, userAddress, success) ==
    [action |-> action, documentHash |-> documentHash,
     userAddress |-> userAddress, success |-> success]

---------------------------------------------------------------------------
(* The API server: requests *)

\* handlers that may be in flight at once
Slots == {1, 2}

\* a request body; a field the client left out is Absent ("" for a name,
\* "absent" for isActive, which is the JSON literal true or false when a
\* boolean)
BlankBody ==
    [documentHash |-> Absent, title |-> "", issuer |-> "",
     issuerAddress |-> Absent, owner |-> "", ownerAddress |-> Absent,
     action |-> "", isActive |-> "absent", userAddress |-> Absent,
     newOwnerAddress |-> Absent, newOwner |-> "",
     verifierAddress |-> Absent]

BlankDoc ==
    [documentHash |-> Absent, title |-> "", issuer |-> "",
     issuerAddress |-> Absent, owner |-> "", ownerAddress |-> Absent,
     isActive |-> FALSE, verificationCount |-> 0]

\* the Mongoose document a handler holds: the collection entry it was
\* loaded from (0: none), its local field values, the paths it has modified
NoSnapshot == [id |-> 0, data |-> BlankDoc, modified |-> {}]
Snapshot(i) == [id |-> i, data |-> dbDocs[i], modified |-> {}]

\* doc.<path> = value: the path is marked modified when the value changes
SetPath(snap, path, value) ==
    IF snap.data[path] = value THEN snap
    ELSE [snap EXCEPT !.data[path] = value,
                      !.modified = @ \cup {path}]

\* document.save() of a loaded document: $set of the modified paths on
\* the entry with the document's _id
Saved(snap, path, stored) ==
    IF path \in snap.modified THEN snap.data[path] ELSE stored

SavedDocs(snap) ==
    [dbDocs EXCEPT
        ![snap.id].isActive = Saved(snap, "isActive", @),
        ![snap.id].ownerAddress = Saved(snap, "ownerAddress", @),
        ![snap.id].owner = Saved(snap, "owner", @),
        ![snap.id].verificationCount = Saved(snap, "verificationCount", @)]

\* the verification object of a /api/verify response
NoVerification ==
    [isValid |-> FALSE, error |-> "none", attached |-> FALSE,
     issuer |-> "", issuerAddress |-> Absent, ownerAddress |-> Absent,
     verificationCount |-> 0]

\* a handler's locals: where it is, its body, the document it loaded, the
\* owner address it read before a transfer, its verificationResult, and the
\* number of collection operations it has awaited
IdleReq ==
    [pc |-> "idle", kind |-> "none", body |-> BlankBody, doc |-> NoSnapshot,
     oldOwnerAddress |-> Absent, verification |-> NoVerification,
     calls |-> 0]

NoResponse ==
    [kind |-> "none", documentHash |-> Absent, status |-> 0, error |-> "",
     verification |-> NoVerification, calls |-> 0]

\* NextResponse.json(...): the handler in slot r returns
Respond(r, kind, body, status, error, verification, calls) ==
    /\ req' = [req EXCEPT ![r] = IdleReq]
    /\ response' =
          [kind |-> kind, documentHash |-> body.documentHash,
           status |-> status, error |-> error,
           verification |-> verification, calls |-> calls]

\* a handler is entered: the request budget allows it, and r is the
\* lowest free slot (a slot is only a name for a handler in flight)
CanStart(r) ==
    /\ side = "mirror"
    /\ req[r].pc = "idle"
    /\ \A q \in Slots : q < r => req[q].pc # "idle"
    /\ started < MaxRequests

InFlight(r, kind, pc) ==
    /\ side = "mirror"
    /\ req[r].kind = kind
    /\ req[r].pc = pc

---------------------------------------------------------------------------
(* POST /api/documents *)

\* a body with every required field present and well-formed
GoodCreateBody ==
    [BlankBody EXCEPT !.documentHash = HashLower, !.title = "Degree",
                      !.issuer = "University", !.owner = "Alice",
                      !.issuerAddress = AddrIssuer,
                      !.ownerAddress = AddrOwner1]

\* the bodies explored: the good body with every hash input, and with an
\* owner address that is malformed or absent
CreateBodies ==
    { [GoodCreateBody EXCEPT !.documentHash = h] : h \in HashInputs }
    \cup
    { [GoodCreateBody EXCEPT !.ownerAddress = a] :
        a \in {AddrMalformed, Absent} }

\* "Validate required fields"
MissingRequired(body) ==
    \/ ~Truthy(body.documentHash)
    \/ body.title = ""
    \/ body.issuer = ""
    \/ ~Truthy(body.issuerAddress)
    \/ body.owner = ""
    \/ ~Truthy(body.ownerAddress)

\* new Document({...}) as the route fills it in
NewDocumentIssuerFromOwner(body) ==
    [documentHash |-> body.documentHash, title |-> body.title,
     issuer |-> body.owner,
     issuerAddress |-> ToLowerCase(body.ownerAddress),
     owner |-> body.owner,
     ownerAddress |-> ToLowerCase(body.ownerAddress),
     isActive |-> TRUE, verificationCount |-> 0]

NewDocument(body) ==
    [documentHash |-> body.documentHash, title |-> body.title,
     issuer |-> body.issuer,
     issuerAddress |-> ToLowerCase(body.issuerAddress),
     owner |-> body.owner,
     ownerAddress |-> ToLowerCase(body.ownerAddress),
     isActive |-> TRUE, verificationCount |-> 0]

\* entry: parse the body, validate required fields and the hash format
CreateStart(r) ==
    /\ CanStart(r)
    /\ \E body \in CreateBodies :
          IF MissingRequired(body)
          THEN Respond(r, "create", body, 400, "Missing required fields",
                       NoVerification, 0)
          ELSE IF ~IsValidHash(body.documentHash)
          THEN Respond(r, "create", body, 400,
                       "Invalid document hash format", NoVerification, 0)
          ELSE /\ req' = [req EXCEPT ![r] =
                     [IdleReq EXCEPT !.pc = "findOne", !.kind = "create",
                                     !.body = body]]
               /\ UNCHANGED response
    /\ started' = started + 1
    /\ UNCHANGED <<side, clientVars, chainVars, dbDocs, auditLogs>>

\* "Check if document already exists"
CreateFindOne(r) ==
    /\ InFlight(r, "create", "findOne")
    /\ IF FindOne(req[r].body.documentHash) # 0
       THEN Respond(r, "create", req[r].body, 409,
                    "Document with this hash already exists",
                    NoVerification, req[r].calls + 1)
       ELSE /\ req' = [req EXCEPT ![r].pc = "save", ![r].calls = @ + 1]
            /\ UNCHANGED response
    /\ UNCHANGED <<side, clientVars, chainVars, dbDocs, auditLogs, started>>

\* await newDocument.save(): validation, then the insert; a validation
\* error or a duplicate-key error is thrown into the catch block
CreateSave(r) ==
    /\ InFlight(r, "create", "save")
    /\ LET d == NewDocument(req[r].body) IN
       IF DocumentValid(d) /\ UniqueIndexAdmits(d.documentHash)
       THEN /\ dbDocs' = Append(dbDocs, d)
            /\ req' = [req EXCEPT ![r].pc = "log", ![r].calls = @ + 1]
            /\ UNCHANGED response
       ELSE /\ Respond(r, "create", req[r].body, 500,
                       "Internal server error", NoVerification,
                       req[r].calls + 1)
            /\ UNCHANGED dbDocs
    /\ UNCHANGED <<side, clientVars, chainVars, auditLogs, started>>

\* await AuditLog.logAction('document_created', ...), then the 201
CreateLog(r) ==
    /\ InFlight(r, "create", "log")
    /\ LET entry == LogEntry("document_created", req[r].body.documentHash,
                             ToLowerCase(req[r].body.issuerAddress), TRUE)
       IN IF AuditValid(entry)
          THEN /\ auditLogs' = Append(auditLogs, entry)
               /\ Respond(r, "create", req[r].body, 201, "",
                          NoVerification, req[r].calls + 1)
          ELSE /\ Respond(r, "create", req[r].body, 500,
                          "Internal server error", NoVerification,
                          req[r].calls + 1)
               /\ UNCHANGED auditLogs
    /\ UNCHANGED <<side, clientVars, chainVars, dbDocs, started>>

---------------------------------------------------------------------------
(* PUT /api/documents *)

\* the bodies explored, all on one hash: a revoke with isActive false sent
\* by the issuer, by a third party or with no userAddress, and one with
\* isActive true; a transfer sent by the owner or by a third party, and one
\* with a new owner address that is malformed or absent; and a body with no
\* documentHash
PutBodies ==
    { [BlankBody EXCEPT !.documentHash = HashLower, !.action = "revoke",
                        !.isActive = "false", !.userAddress = u] :
        u \in {AddrIssuer, AddrStranger, Absent} }
    \cup
    { [BlankBody EXCEPT !.documentHash = HashLower, !.action = "transfer",
                        !.newOwnerAddress = AddrOwner2, !.newOwner = "Bob",
                        !.userAddress = u] :
        u \in {AddrOwner1, AddrStranger} }
    \cup
    { [BlankBody EXCEPT !.documentHash = HashLower, !.action = "transfer",
                        !.newOwnerAddress = n, !.userAddress = AddrOwner1] :
        n \in {AddrMalformed, Absent} }
    \cup
    { [BlankBody EXCEPT !.documentHash = HashLower, !.action = "revoke",
                        !.isActive = "true", !.userAddress = AddrIssuer],
      [BlankBody EXCEPT !.action = "revoke", !.isActive = "false",
                        !.userAddress = AddrIssuer] }

\* entry: parse the body, require documentHash
PutStart(r) ==
    /\ CanStart(r)
    /\ \E body \in PutBodies :
          IF ~Truthy(body.documentHash)
          THEN Respond(r, "put", body, 400, "Document hash is required",
                       NoVerification, 0)
          ELSE /\ req' = [req EXCEPT ![r] =
                     [IdleReq EXCEPT !.pc = "findOne", !.kind = "put",
                                     !.body = body]]
               /\ UNCHANGED response
    /\ started' = started + 1
    /\ UNCHANGED <<side, clientVars, chainVars, dbDocs, auditLogs>>

\* the assignments of the revoke branch
PutRevokeAssign(snap, body) ==
    SetPath(snap, "isActive", body.isActive = "true")

\* the assignments of the transfer branch
PutTransferAssign(snap, body) ==
    SetPath(SetPath(snap, "ownerAddress", ToLowerCase(body.newOwnerAddress)),
            "owner", IF body.newOwner # "" THEN body.newOwner ELSE "Unknown")

\* the branch conditions of "Update document based on action"
\* typeof isActive === 'boolean'
PutIsRevoke(body) ==
    body.action = "revoke" /\ body.isActive \in {"true", "false"}
PutIsTransfer(body) ==
    body.action = "transfer" /\ Truthy(body.newOwnerAddress)

\* "Find document", then the branch's assignments up to its save()
PutFindOne(r) ==
    /\ InFlight(r, "put", "findOne")
    /\ LET body == req[r].body
           i == FindOne(body.documentHash)
       IN IF i = 0
          THEN Respond(r, "put", body, 404, "Document not found",
                       NoVerification, req[r].calls + 1)
          ELSE IF PutIsRevoke(body)
          THEN /\ req' = [req EXCEPT
                     ![r].pc = "save", ![r].calls = @ + 1,
                     ![r].doc = PutRevokeAssign(Snapshot(i), body)]
               /\ UNCHANGED response
          ELSE IF PutIsTransfer(body)
          THEN /\ req' = [req EXCEPT
                     ![r].pc = "save", ![r].calls = @ + 1,
                     ![r].oldOwnerAddress = dbDocs[i].ownerAddress,
                     ![r].doc = PutTransferAssign(Snapshot(i), body)]
               /\ UNCHANGED response
          ELSE Respond(r, "put", body, 200, "", NoVerification,
                       req[r].calls + 1)
    /\ UNCHANGED <<side, clientVars, chainVars, dbDocs, auditLogs, started>>

\* await document.save(): validation of the document, then the update
PutSave(r) ==
    /\ InFlight(r, "put", "save")
    /\ IF DocumentValid(req[r].doc.data)
       THEN /\ dbDocs' = SavedDocs(req[r].doc)
            /\ req' = [req EXCEPT ![r].pc = "log", ![r].calls = @ + 1]
            /\ UNCHANGED response
       ELSE /\ Respond(r, "put", req[r].body, 500, "Internal server error",
                       NoVerification, req[r].calls + 1)
            /\ UNCHANGED dbDocs
    /\ UNCHANGED <<side, clientVars, chainVars, auditLogs, started>>

\* the audit entry of the branch taken
PutLogEntry(r) ==
    LET body == req[r].body IN
    IF PutIsRevoke(body)
    THEN LogEntry("document_revoked", body.documentHash,
                  OrElse(body.userAddress, StrUnknown), TRUE)
    ELSE LogEntry("document_transferred", body.documentHash,
                  OrElse(body.userAddress, req[r].oldOwnerAddress), TRUE)

\* await AuditLog.logAction(...), then the 200
PutLog(r) ==
    /\ InFlight(r, "put", "log")
    /\ IF AuditValid(PutLogEntry(r))
       THEN /\ auditLogs' = Append(auditLogs, PutLogEntry(r))
            /\ Respond(r, "put", req[r].body, 200, "", NoVerification,
                       req[r].calls + 1)
       ELSE /\ Respond(r, "put", req[r].body, 500, "Internal server error",
                       NoVerification, req[r].calls + 1)
            /\ UNCHANGED auditLogs
    /\ UNCHANGED <<side, clientVars, chainVars, dbDocs, started>>

---------------------------------------------------------------------------
(* POST /api/verify *)

\* the bodies explored: the hash inputs from a verifier with an address,
\* and one from a verifier without
VerifyBodies ==
    { [BlankBody EXCEPT !.documentHash = h, !.verifierAddress = AddrStranger] :
        h \in HashInputs \ {HashLong} }
    \cup
    { [BlankBody EXCEPT !.documentHash = HashLower] }

\* the early returns of the handler: "" when the body passes both
VerifyBodyErrorNoFormatCheck(body) ==
    IF ~Truthy(body.documentHash) THEN "Document hash is required"
    ELSE ""

VerifyBodyError(body) ==
    IF ~Truthy(body.documentHash) THEN "Document hash is required"
    ELSE IF ~IsValidHash(body.documentHash) THEN "Invalid hash format"
    ELSE ""

\* entry: parse the body, require documentHash, validate the hash format
VerifyStart(r) ==
    /\ CanStart(r)
    /\ \E body \in VerifyBodies :
          IF VerifyBodyError(body) # ""
          THEN Respond(r, "verify", body, 400, VerifyBodyError(body),
                       NoVerification, 0)
          ELSE /\ req' = [req EXCEPT ![r] =
                     [IdleReq EXCEPT !.pc = "findOne", !.kind = "verify",
                                     !.body = body]]
               /\ UNCHANGED response
    /\ started' = started + 1
    /\ UNCHANGED <<side, clientVars, chainVars, dbDocs, auditLogs>>

\* the verificationResult of each branch
VerificationValid(d) ==
    [isValid |-> TRUE, error |-> "", attached |-> TRUE,
     issuer |-> d.issuer, issuerAddress |-> d.issuerAddress,
     ownerAddress |-> d.ownerAddress,
     verificationCount |-> d.verificationCount]

VerificationRevoked(d) ==
    [NoVerification EXCEPT !.error = "Document has been revoked",
                           !.attached = TRUE, !.issuer = d.issuer]

VerificationNotFound ==
    [NoVerification EXCEPT !.error = "Document not found in blockchain"]

\* "Find document in database", and the branches that await nothing
VerifyFindOne(r) ==
    /\ InFlight(r, "verify", "findOne")
    /\ LET i == FindOne(req[r].body.documentHash) IN
       IF i # 0 /\ dbDocs[i].isActive
       THEN req' = [req EXCEPT ![r].pc = "increment", ![r].calls = @ + 1,
                                ![r].doc = Snapshot(i)]
       ELSE req' = [req EXCEPT ![r].pc = "log", ![r].calls = @ + 1,
                                ![r].verification =
                                   IF i # 0 THEN VerificationRevoked(dbDocs[i])
                                   ELSE VerificationNotFound]
    /\ UNCHANGED <<side, clientVars, chainVars, dbDocs, auditLogs, started,
                   response>>

\* incrementVerification: this.verificationCount += 1; return this.save()
IncrementVerification(snap) ==
    SetPath(snap, "verificationCount", snap.data.verificationCount + 1)

\* await document.incrementVerification(), then the valid result
VerifyIncrement(r) ==
    /\ InFlight(r, "verify", "increment")
    /\ LET snap == IncrementVerification(req[r].doc) IN
       /\ dbDocs' = SavedDocs(snap)
       /\ req' = [req EXCEPT ![r].pc = "log", ![r].calls = @ + 1,
                              ![r].doc = snap,
                              ![r].verification = VerificationValid(snap.data)]
    /\ UNCHANGED <<side, clientVars, chainVars, auditLogs, started, response>>

\* await document.incrementVerification() rejects (the database refuses or
\* loses the write): nothing is stored, the catch block runs, its own
\* logAction cannot succeed (it reads `body`, which is out of scope there)
\* and the handler answers 500
VerifyIncrementRejects(r) ==
    /\ InFlight(r, "verify", "increment")
    /\ Respond(r, "verify", req[r].body, 500, "Internal server error",
               NoVerification, req[r].calls + 1)
    /\ UNCHANGED <<side, clientVars, chainVars, dbDocs, auditLogs, started>>

\* await AuditLog.logAction('document_verified', ...), then the 200; when
\* the write throws, the catch block's own logAction cannot succeed either
\* and the handler answers 500
VerifyLog(r) ==
    /\ InFlight(r, "verify", "log")
    /\ LET entry == LogEntry("document_verified", req[r].body.documentHash,
                             OrElse(req[r].body.verifierAddress, StrAnonymous),
                             req[r].verification.isValid)
       IN IF AuditValid(entry)
          THEN /\ auditLogs' = Append(auditLogs, entry)
               /\ Respond(r, "verify", req[r].body, 200, "",
                          req[r].verification, req[r].calls + 1)
          ELSE /\ Respond(r, "verify", req[r].body, 500,
                          "Internal server error", NoVerification,
                          req[r].calls + 1)
               /\ UNCHANGED auditLogs
    /\ UNCHANGED <<side, clientVars, chainVars, dbDocs, started>>

---------------------------------------------------------------------------
(* utils/crypto: isValidHash *)

\* /^[a-f0-9]{64}$/i.test(hash)
isValidHash(hash) == IsValidHash(hash)

\* no call made yet
NoCheck == [hash |-> <<>>, valid |-> FALSE, called |-> FALSE]

---------------------------------------------------------------------------
(* components/upload/FileUpload *)

\* files dropped in one behaviour, and accepted by one drop
MaxFiles == 3
MaxDropped == 2

\* handlers that may be waiting at once: onDrop on hashFile,
\* uploadToBlockchain on its timeout
DropSlots == {1, 2}
UploadSlots == {1}

\* hashFile(file): the digest is a function of the file
NoHash == <<>>
hashFile(file) == <<"sha256", file>>

\* the mock transaction hash derived from the entry's hash
NoTransaction == <<>>
mockTxHash(hash) == <<"0x">> \o hash

\* { file, hash: '', status: 'pending' }
NewUploadedFile(file) ==
    [file |-> file, hash |-> NoHash, status |-> "pending",
     transactionHash |-> NoTransaction, error |-> ""]

\* prev.map((f, idx) => idx === fileIndex ? g(f) : f), with g given as the
\* replaced fields; fileIndex counts from 0 and may be past the end
MapAt(prev, fileIndex, fields) ==
    [idx \in 1..Len(prev) |->
        IF idx - 1 = fileIndex
        THEN [k \in DOMAIN prev[idx] |->
                 IF k \in DOMAIN fields THEN fields[k] ELSE prev[idx][k]]
        ELSE prev[idx]]

\* prev.filter((_, idx) => idx !== index)
FilterOut(prev, index) ==
    [idx \in 1..(Len(prev) - 1) |->
        IF idx - 1 < index THEN prev[idx] ELSE prev[idx + 1]]

IdleDrop == [pc |-> "idle", length |-> 0, newFiles |-> <<>>, i |-> 0]
IdleUpload == [pc |-> "idle", fileIndex |-> 0, hash |-> NoHash]

\* the component as mounted: no file, no handler waiting
Mounted ==
    /\ uploadedFiles = <<>>
    /\ drops = [d \in DropSlots |-> IdleDrop]
    /\ uploads = [u \in UploadSlots |-> IdleUpload]
    /\ nextFile = 1

\* onDrop(acceptedFiles) up to its first await: the entries are appended,
\* the first is marked 'hashing' at uploadedFiles.length of the closure
\* (the render current when the files are dropped)
onDrop(d) ==
    /\ side = "upload"
    /\ drops[d].pc = "idle"
    /\ \A q \in DropSlots : q < d => drops[q].pc # "idle"
    /\ \E n \in 1..MaxDropped :
          /\ nextFile + n - 1 <= MaxFiles
          /\ LET acceptedFiles == [k \in 1..n |-> nextFile + k - 1]
                 newFiles == [k \in 1..n |-> NewUploadedFile(acceptedFiles[k])]
                 length == Len(uploadedFiles)
             IN /\ uploadedFiles' =
                      MapAt(uploadedFiles \o newFiles, length,
                            [status |-> "hashing"])
                /\ drops' = [drops EXCEPT ![d] =
                      [pc |-> "hashFile", length |-> length,
                       newFiles |-> acceptedFiles, i |-> 0]]
                /\ nextFile' = nextFile + n
    /\ UNCHANGED <<side, chainVars, mirrorVars, checked, uploads>>

\* the loop after an await: the next file is marked 'hashing', or the
\* handler returns
NextInLoop(d, files) ==
    IF drops[d].i + 1 < Len(drops[d].newFiles)
    THEN /\ uploadedFiles' =
               MapAt(files, drops[d].length + drops[d].i + 1,
                     [status |-> "hashing"])
         /\ drops' = [drops EXCEPT ![d].i = @ + 1]
    ELSE /\ uploadedFiles' = files
         /\ drops' = [drops EXCEPT ![d] = IdleDrop]

\* await hashFile(newFiles[i].file) resolves: the hash is written at
\* fileIndex = uploadedFiles.length + i
HashResolves(d) ==
    /\ side = "upload"
    /\ drops[d].pc = "hashFile"
    /\ LET fileIndex == drops[d].length + drops[d].i
           hash == hashFile(drops[d].newFiles[drops[d].i + 1])
       IN NextInLoop(d, MapAt(uploadedFiles, fileIndex,
                              [hash |-> hash, status |-> "pending"]))
    /\ UNCHANGED <<side, chainVars, mirrorVars, checked, uploads, nextFile>>

\* await hashFile(...) rejects: the catch block marks fileIndex
HashRejects(d) ==
    /\ side = "upload"
    /\ drops[d].pc = "hashFile"
    /\ LET fileIndex == drops[d].length + drops[d].i
       IN NextInLoop(d, MapAt(uploadedFiles, fileIndex,
                              [status |-> "error",
                               error |-> "Failed to hash file"]))
    /\ UNCHANGED <<side, chainVars, mirrorVars, checked, uploads, nextFile>>

\* uploadToBlockchain(fileIndex) up to its await; the button is rendered
\* for an entry that is 'pending' and has a hash; the wallet is connected
uploadToBlockchain(u, fileIndex) ==
    /\ side = "upload"
    /\ uploads[u].pc = "idle"
    /\ fileIndex \in 0..(Len(uploadedFiles) - 1)
    /\ LET file == uploadedFiles[fileIndex + 1] IN
       /\ file.status = "pending"
       /\ file.hash # NoHash
       /\ uploadedFiles' =
             MapAt(uploadedFiles, fileIndex, [status |-> "uploading"])
       /\ uploads' = [uploads EXCEPT ![u] =
             [pc |-> "timeout", fileIndex |-> fileIndex, hash |-> file.hash]]
    /\ UNCHANGED <<side, chainVars, mirrorVars, checked, drops, nextFile>>

\* the timeout fires: 'success' and the mock transaction hash are written
\* at fileIndex
UploadResolves(u) ==
    /\ side = "upload"
    /\ uploads[u].pc = "timeout"
    /\ uploadedFiles' =
          MapAt(uploadedFiles, uploads[u].fileIndex,
                [status |-> "success",
                 transactionHash |-> mockTxHash(uploads[u].hash)])
    /\ uploads' = [uploads EXCEPT ![u] = IdleUpload]
    /\ UNCHANGED <<side, chainVars, mirrorVars, checked, drops, nextFile>>

\* removeFile(index), from the Remove button of any entry
removeFile(index) ==
    /\ side = "upload"
    /\ index \in 0..(Len(uploadedFiles) - 1)
    /\ uploadedFiles' = FilterOut(uploadedFiles, index)
    /\ UNCHANGED <<side, chainVars, mirrorVars, checked, drops, uploads,
                   nextFile>>

UploadInit ==
    /\ side = "upload"
    /\ documents = [h \in HashInputs |-> EmptyDocument]
    /\ ownerDocuments = [a \in Addresses |-> <<>>]
    /\ issuerDocuments = [a \in Addresses |-> <<>>]
    /\ events = <<>>
    /\ dbDocs = <<>>
    /\ auditLogs = <<>>
    /\ req = [r \in Slots |-> IdleReq]
    /\ started = 0
    /\ response = NoResponse
    /\ checked = NoCheck
    /\ Mounted

UploadNext ==
    \/ \E d \in DropSlots : onDrop(d)
    \/ \E d \in DropSlots : HashResolves(d)
    \/ \E d \in DropSlots : HashRejects(d)
    \/ \E u \in UploadSlots, fileIndex \in 0..(MaxFiles - 1) :
          uploadToBlockchain(u, fileIndex)
    \/ \E u \in UploadSlots : UploadResolves(u)
    \/ \E index \in 0..(MaxFiles - 1) : removeFile(index)

SpecUpload == UploadInit /\ [][UploadNext]_vars

---------------------------------------------------------------------------
(* utils/crypto: callers of isValidHash *)

\* the strings explored: one character repeated, at the lengths around
\* the digest length, and digests with one character replaced at the
\* first, a middle or the last position
ProbeChars == {"0", "9", "a", "f", "A", "F", "g", "G", "x", "X"}
ProbeLens == {0, 1, HashLen - 1, HashLen, HashLen + 1}
ProbePositions == {1, HashLen \div 2, HashLen}

HashProbes ==
    {Rep(c, n) : c \in ProbeChars, n \in ProbeLens}
    \cup
    {[Rep(b, HashLen) EXCEPT ![k] = c] :
        b \in {"a", "0", "F"}, k \in ProbePositions, c \in ProbeChars}

\* a caller applies isValidHash to a string
CheckHash ==
    /\ side = "codec"
    /\ \E hash \in HashProbes :
          checked' = [hash |-> hash, valid |-> isValidHash(hash),
                      called |-> TRUE]
    /\ UNCHANGED <<side, chainVars, mirrorVars, uploadedFiles, drops, uploads,
                   nextFile>>

CodecInit ==
    /\ side = "codec"
    /\ documents = [h \in HashInputs |-> EmptyDocument]
    /\ ownerDocuments = [a \in Addresses |-> <<>>]
    /\ issuerDocuments = [a \in Addresses |-> <<>>]
    /\ events = <<>>
    /\ dbDocs = <<>>
    /\ auditLogs = <<>>
    /\ req = [r \in Slots |-> IdleReq]
    /\ started = 0
    /\ response = NoResponse
    /\ checked = NoCheck
    /\ Mounted

CodecNext == CheckHash

SpecCodec == CodecInit /\ [][CodecNext]_vars

---------------------------------------------------------------------------
Init ==
    /\ side \in {"chain", "mirror"}
    /\ documents = [h \in HashInputs |-> EmptyDocument]
    /\ ownerDocuments = [a \in Addresses |-> <<>>]
    /\ issuerDocuments = [a \in Addresses |-> <<>>]
    /\ events = <<>>
    /\ dbDocs = <<>>
    /\ auditLogs = <<>>
    /\ req = [r \in Slots |-> IdleReq]
    /\ started = 0
    /\ response = NoResponse
    /\ checked = NoCheck
    /\ Mounted

Next ==
    \/ StoreTx
    \/ RevokeTx
    \/ TransferTx
    \/ \E r \in Slots : CreateStart(r)
    \/ \E r \in Slots : CreateFindOne(r)
    \/ \E r \in Slots : CreateSave(r)
    \/ \E r \in Slots : CreateLog(r)
    \/ \E r \in Slots : PutStart(r)
    \/ \E r \in Slots : PutFindOne(r)
    \/ \E r \in Slots : PutSave(r)
    \/ \E r \in Slots : PutLog(r)
    \/ \E r \in Slots : VerifyStart(r)
    \/ \E r \in Slots : VerifyFindOne(r)
    \/ \E r \in Slots : VerifyIncrement(r)
    \/ \E r \in Slots : VerifyIncrementRejects(r)
    \/ \E r \in Slots : VerifyLog(r)

Spec == Init /\ [][Next]_vars

---------------------------------------------------------------------------
(* Vocabulary of the claims *)

\* the entries of the Document collection stored under documentHash
EntriesOf(documentHash) ==
    {i \in 1..Len(dbDocs) : dbDocs[i].documentHash = documentHash}

\* the DocumentStored events emitted for h
StoredEventsOf(h) ==
    {i \in 1..Len(events) :
        events[i].name = "DocumentStored" /\ events[i].documentHash = h}

\* the handler in slot r returns its response in this step
Completes(r, kind) ==
    /\ req[r].kind = kind
    /\ req[r].pc # "idle"
    /\ req'[r].pc = "idle"

---------------------------------------------------------------------------
(* C1: at most one record per fingerprint.  On the contract every          *)
(* storeDocument for a key that holds a document, revoked or not, reverts  *)
(* with "Document already exists" and changes nothing, and no key is ever  *)
(* stored twice.  On the API a create whose existence check finds an       *)
(* entry answers 409 "Document with this hash already exists", no step of  *)
(* a create changes an existing entry, and the collection never holds two  *)
(* entries with one documentHash.                                          *)
C1_StateOk ==
    /\ \A h \in HashInputs :
          /\ Cardinality(StoredEventsOf(h)) <= 1
          /\ DocExists(h) =>
                \A sender \in Accounts, m \in Metadatas, o \in Addresses :
                    StoreRevert(sender, h, m, o) = "Document already exists"
    /\ \A h \in HashInputs : Cardinality(EntriesOf(h)) <= 1

C1_StepOk ==
    /\ (side = "chain" /\ chainVars' # chainVars)
          => \A sender \in StoreSenders, h \in StoredHashes,
                m \in Metadatas, o \in StoreOwners :
                ~(DocExists(h) /\ storeDocument(sender, h, m, o))
    /\ \A r \in Slots :
          (side = "mirror" /\ req[r].kind = "create" /\ req'[r] # req[r])
             => /\ \A i \in 1..Len(dbDocs) : dbDocs'[i] = dbDocs[i]
                /\ (/\ req[r].pc = "findOne"
                    /\ EntriesOf(req[r].body.documentHash) # {})
                      => /\ req'[r].pc = "idle"
                         /\ response'.status = 409
                         /\ response'.error =
                               "Document with this hash already exists"
                         /\ dbDocs' = dbDocs

\* C1: one record per fingerprint, and a duplicate create changes nothing
C1_OneRecordPerFingerprint == []C1_StateOk /\ [][C1_StepOk]_vars

\* C1: a create was answered 409 for a hash whose entry has been revoked
C1_Witness ==
    /\ response.kind = "create"
    /\ response.status = 409
    /\ \E i \in EntriesOf(response.documentHash) : ~dbDocs[i].isActive

---------------------------------------------------------------------------
(* C2: concurrent creates on one fingerprint.  The collection never holds  *)
(* two entries with one documentHash and no hash is logged as created      *)
(* twice; and every create with a well-formed body that passes the entry   *)
(* checks is answered 201 or 409 "Document with this hash already exists", *)
(* whatever the interleaving of the existence checks and the inserts.      *)
CreatedLogsOf(documentHash) ==
    {i \in 1..Len(auditLogs) :
        /\ auditLogs[i].action = "document_created"
        /\ auditLogs[i].documentHash = documentHash}

C2_StateOk ==
    \A h \in HashInputs :
        /\ Cardinality(EntriesOf(h)) <= 1
        /\ Cardinality(CreatedLogsOf(h)) <= 1

C2_StepOk ==
    \A r \in Slots :
        (/\ side = "mirror"
         /\ Completes(r, "create")
         /\ DocumentValid(NewDocument(req[r].body)))
           => \/ response'.status = 201
              \/ /\ response'.status = 409
                 /\ response'.error = "Document with this hash already exists"

\* C2: one record, one success, and every other create answered 409
C2_ConcurrentCreates == []C2_StateOk /\ [][C2_StepOk]_vars

---------------------------------------------------------------------------
(* C3: the active flag is one-way.  No step of the contract and no step of *)
(* the API turns the isActive of an existing record from false to true.    *)
C3_StepOk ==
    /\ \A h \in HashInputs :
          (DocExists(h) /\ ~documents[h].isActive) => ~documents'[h].isActive
    /\ \A i \in 1..Len(dbDocs) : ~dbDocs[i].isActive => ~dbDocs'[i].isActive

\* C3: once isActive is false it is false in every later state
C3_ActiveFlagOneWay == [][C3_StepOk]_vars

---------------------------------------------------------------------------
(* C4: only the issuer or the current owner revokes.  On the contract a    *)
(* revokeDocument of an active document by anyone else reverts with "Only  *)
(* issuer or owner can revoke", and a step that deactivates a document is  *)
(* sent by its issuer or owner.  On the API a PUT revoke that deactivates  *)
(* an entry, or that is answered 200, carries the userAddress of the       *)
(* entry's issuer or owner.                                                *)
C4_StateOk ==
    \A h \in StoredHashes, sender \in Accounts :
        (/\ DocExists(h)
         /\ documents[h].isActive
         /\ sender \notin {documents[h].issuer, documents[h].owner})
           => RevokeRevert(sender, h) = "Only issuer or owner can revoke"

C4_StepOk ==
    /\ \A sender \in Accounts, h \in StoredHashes :
          (/\ side = "chain"
           /\ documents[h].isActive
           /\ ~documents'[h].isActive
           /\ revokeDocument(sender, h))
             => sender \in {documents[h].issuer, documents[h].owner}
    /\ \A r \in Slots, i \in 1..Len(dbDocs) :
          (/\ PutSave(r) \/ PutLog(r)
           /\ PutIsRevoke(req[r].body)
           /\ req[r].doc.id = i
           /\ \/ dbDocs[i].isActive /\ ~dbDocs'[i].isActive
              \/ req'[r].pc = "idle" /\ response'.status = 200)
             => req[r].body.userAddress \in
                   {dbDocs[i].issuerAddress, dbDocs[i].ownerAddress}

\* C4: a record is revoked by its issuer or its current owner only
C4_RevokeAuthorized == []C4_StateOk /\ [][C4_StepOk]_vars

---------------------------------------------------------------------------
(* C5: only the current owner transfers.  On the contract a                *)
(* transferDocument of an active document by anyone but its owner reverts  *)
(* with "Only owner can transfer", and a step that changes a document's    *)
(* owner is sent by that owner.  On the API a PUT transfer that changes an *)
(* active entry's ownerAddress carries the userAddress of the entry's      *)
(* owner.                                                                  *)
C5_StateOk ==
    \A h \in StoredHashes, sender \in Accounts, n \in Addresses :
        (/\ DocExists(h)
         /\ documents[h].isActive
         /\ sender # documents[h].owner)
           => TransferRevert(sender, h, n) = "Only owner can transfer"

C5_StepOk ==
    /\ \A sender \in Accounts, h \in StoredHashes, n \in Addresses :
          (/\ side = "chain"
           /\ documents'[h].owner # documents[h].owner
           /\ transferDocument(sender, h, n))
             => sender = documents[h].owner
    /\ \A r \in Slots, i \in 1..Len(dbDocs) :
          (/\ PutSave(r)
           /\ PutIsTransfer(req[r].body)
           /\ dbDocs[i].isActive
           /\ dbDocs'[i].ownerAddress # dbDocs[i].ownerAddress)
             => req[r].body.userAddress = dbDocs[i].ownerAddress

\* C5: a record is transferred by its current owner only
C5_TransferAuthorized == []C5_StateOk /\ [][C5_StepOk]_vars

---------------------------------------------------------------------------
(* C6: no transfer of a revoked record.  On the contract a                 *)
(* transferDocument of a revoked document reverts with "Cannot transfer    *)
(* revoked document" for every sender and every new owner.  On the API a   *)
(* PUT transfer that finds a revoked entry is refused then and there.  On  *)
(* both, no step changes the owner of a revoked record.                    *)
C6_StateOk ==
    \A h \in StoredHashes, sender \in Accounts, n \in Addresses :
        (DocExists(h) /\ ~documents[h].isActive)
           => TransferRevert(sender, h, n) = "Cannot transfer revoked document"

C6_StepOk ==
    /\ \A h \in StoredHashes :
          (DocExists(h) /\ ~documents[h].isActive)
             => documents'[h].owner = documents[h].owner
    /\ \A i \in 1..Len(dbDocs) :
          ~dbDocs[i].isActive
             => /\ dbDocs'[i].ownerAddress = dbDocs[i].ownerAddress
                /\ dbDocs'[i].owner = dbDocs[i].owner
    /\ \A r \in Slots :
          (/\ PutFindOne(r)
           /\ PutIsTransfer(req[r].body)
           /\ \E i \in EntriesOf(req[r].body.documentHash) :
                 ~dbDocs[i].isActive)
             => /\ req'[r].pc = "idle"
                /\ response'.status >= 400

\* C6: a transfer of a revoked record is refused as such, owner unchanged
C6_NoTransferOfRevoked == []C6_StateOk /\ [][C6_StepOk]_vars

---------------------------------------------------------------------------
(* C7: a second revoke reports that the record is already revoked.  On the *)
(* contract a revokeDocument of a revoked document reverts with "Document  *)
(* already revoked" for every sender and changes nothing.  On the API a    *)
(* PUT revoke with isActive false that finds a revoked entry is refused    *)
(* then and there, and the entry stays inactive.                           *)
C7_StateOk ==
    \A h \in StoredHashes, sender \in Accounts :
        (DocExists(h) /\ ~documents[h].isActive)
           => RevokeRevert(sender, h) = "Document already revoked"

C7_StepOk ==
    /\ \A sender \in Accounts, h \in StoredHashes :
          (/\ side = "chain"
           /\ DocExists(h)
           /\ ~documents[h].isActive
           /\ revokeDocument(sender, h))
             => UNCHANGED chainVars
    /\ \A r \in Slots :
          (/\ PutFindOne(r)
           /\ PutIsRevoke(req[r].body)
           /\ req[r].body.isActive = "false"
           /\ \E i \in EntriesOf(req[r].body.documentHash) :
                 ~dbDocs[i].isActive)
             => /\ req'[r].pc = "idle"
                /\ response'.status >= 400
                /\ dbDocs' = dbDocs

\* C7: a revoke of a revoked record is refused as already revoked
C7_SecondRevokeRefused == []C7_StateOk /\ [][C7_StepOk]_vars

---------------------------------------------------------------------------
(* C8: inputs that differ in letter case only resolve to one record.  On   *)
(* the contract no two keys of one digest both hold a document, and        *)
(* verifyDocument returns the same tuple for every 64-character spelling   *)
(* of a stored digest.  On the API no two entries have documentHash values *)
(* of one digest, and findOne on any spelling of a stored digest finds the *)
(* entry.                                                                  *)
\* C8: one record per digest, whatever the letter case of the input
C8_CaseInsensitiveRecords ==
    /\ \A x \in HashInputs, y \in HashInputs :
          (DocExists(x) /\ SameDigest(x, y))
             => /\ DocExists(y) => x = y
                /\ verifyDocument(y) = verifyDocument(x)
    /\ \A i \in 1..Len(dbDocs), j \in 1..Len(dbDocs) :
          SameDigest(dbDocs[i].documentHash, dbDocs[j].documentHash) => i = j
    /\ \A i \in 1..Len(dbDocs), y \in HashInputs :
          SameDigest(dbDocs[i].documentHash, y) => FindOne(y) = i

---------------------------------------------------------------------------
(* C9: create stores well-formed fingerprints only.  On the contract every *)
(* storeDocument with a key of length 63 or 65, or of length 64 with a     *)
(* non-hexadecimal character, reverts on the format, and every key that    *)
(* holds a document is 64 hexadecimal characters.  On the API such a       *)
(* create is answered 400 "Invalid document hash format" before any        *)
(* collection operation, and every stored documentHash is well-formed.     *)
C9_StateOk ==
    /\ \A h \in HashInputs : DocExists(h) => IsValidHash(h)
    /\ \A i \in 1..Len(dbDocs) : IsValidHash(dbDocs[i].documentHash)
    /\ (/\ response.kind = "create"
        /\ response.documentHash \in {HashShort, HashLong, HashNonHex})
          => /\ response.status = 400
             /\ response.error = "Invalid document hash format"
             /\ response.calls = 0

C9_StepOk ==
    \A sender \in StoreSenders, h \in {HashShort, HashLong, HashNonHex},
       m \in Metadatas, o \in StoreOwners :
        (side = "chain" /\ storeDocument(sender, h, m, o))
           => /\ StoreRevert(sender, h, m, o) = "Invalid hash length"
              /\ UNCHANGED chainVars

\* C9: a malformed fingerprint is refused on its format and never stored
C9_CreateRejectsMalformed == []C9_StateOk /\ [][C9_StepOk]_vars

---------------------------------------------------------------------------
(* C10: /api/verify on a malformed fingerprint.  The handler never reaches *)
(* its findOne with a documentHash that is not 64 hexadecimal characters:  *)
(* such a request is answered 400 with no verification result and no       *)
(* collection operation awaited, the error being "Invalid hash format"     *)
(* when the documentHash is not empty and "Document hash is required" when *)
(* it is empty or missing.                                                 *)
MalformedVerifyResponse ==
    /\ response.kind = "verify"
    /\ ~IsValidHash(response.documentHash)

C10_NoStoreAccess ==
    /\ \A r \in Slots :
          req[r].kind = "verify" => IsValidHash(req[r].body.documentHash)
    /\ MalformedVerifyResponse
          => /\ response.status = 400
             /\ response.verification = NoVerification
             /\ response.calls = 0

---------------------------------------------------------------------------
(* C11: verify distinguishes three outcomes for a well-formed fingerprint. *)
(* On the contract verifyDocument returns exists = false for a key with no *)
(* document, and exists = true with the document's fields and its isActive *)
(* for a key with one.  On the API every verify of a well-formed hash is   *)
(* answered 200 with the result of its lookup: not found with nothing      *)
(* attached, revoked with the document attached, or valid with the         *)
(* document's issuer and owner.                                            *)
C11_StateOk ==
    /\ \A h \in StoredHashes :
          IF DocExists(h)
          THEN /\ verifyDocument(h).exists
               /\ verifyDocument(h).isActive = documents[h].isActive
               /\ verifyDocument(h).owner = documents[h].owner
               /\ verifyDocument(h).issuer = documents[h].issuer
               /\ verifyDocument(h).metadata = documents[h].metadata
          ELSE ~verifyDocument(h).exists
    /\ (response.kind = "verify" /\ IsValidHash(response.documentHash))
          => /\ response.status = 200
             /\ \/ response.verification = VerificationNotFound
                \/ /\ ~response.verification.isValid
                   /\ response.verification.error = "Document has been revoked"
                   /\ response.verification.attached
                \/ /\ response.verification.isValid
                   /\ response.verification.attached
                   /\ IsValidAddress(response.verification.ownerAddress)

C11_StepOk ==
    \A r \in Slots :
        (side = "mirror" /\ req[r].kind = "verify" /\ req'[r] # req[r])
           => LET i == FindOne(req[r].body.documentHash)
                  result == req'[r].verification
              IN /\ (req[r].pc = "findOne" /\ i = 0)
                       => result = VerificationNotFound
                 /\ (req[r].pc = "findOne" /\ i # 0 /\ ~dbDocs[i].isActive)
                       => /\ ~result.isValid
                          /\ result.error = "Document has been revoked"
                          /\ result.attached
                          /\ result.issuer = dbDocs[i].issuer
                 /\ (req[r].pc = "findOne" /\ i # 0 /\ dbDocs[i].isActive)
                       => /\ req'[r].pc = "increment"
                          /\ req'[r].doc.data = dbDocs[i]
                 /\ req[r].pc = "increment"
                       => /\ result.isValid
                          /\ result.attached
                          /\ result.issuer = req[r].doc.data.issuer
                          /\ result.issuerAddress = req[r].doc.data.issuerAddress
                          /\ result.ownerAddress = req[r].doc.data.ownerAddress
                 /\ req'[r].pc = "idle"
                       => /\ response'.status = 200
                          /\ response'.verification = req[r].verification

\* C11: every verify of a well-formed fingerprint answers one of the three
\* outcomes, the one its lookup found
C11_ThreeOutcomes == []C11_StateOk /\ [][C11_StepOk]_vars

---------------------------------------------------------------------------
(* C12: the counter update is best-effort.  Whatever becomes of the        *)
(* awaited incrementVerification, the verify handler that found an active  *)
(* document goes on with the valid result carrying the document it found.  *)
C12_StepOk ==
    \A r \in Slots :
        (InFlight(r, "verify", "increment") /\ req'[r] # req[r])
           => /\ req'[r].pc = "log"
              /\ req'[r].verification.isValid
              /\ req'[r].verification.attached
              /\ req'[r].verification.issuer = req[r].doc.data.issuer
              /\ req'[r].verification.issuerAddress =
                    req[r].doc.data.issuerAddress
              /\ req'[r].verification.ownerAddress =
                    req[r].doc.data.ownerAddress

\* C12: a failed counter update does not change the verification result
C12_CounterBestEffort == [][C12_StepOk]_vars

---------------------------------------------------------------------------
(* C13: a failed audit write does not fail the writer.  A create, revoke   *)
(* or transfer handler whose save() has stored its record answers success  *)
(* (201 for a create, 200 for a PUT) when its logAction returns, whether   *)
(* or not the audit entry was written.                                     *)
C13_StepOk ==
    \A r \in Slots :
        (/\ side = "mirror"
         /\ req[r].kind \in {"create", "put"}
         /\ req[r].pc = "log"
         /\ req'[r] # req[r])
           => /\ req'[r].pc = "idle"
              /\ response'.status = IF req[r].kind = "create" THEN 201 ELSE 200

\* C13: the writer reports success once its record write is committed
C13_AuditFailureContained == [][C13_StepOk]_vars

---------------------------------------------------------------------------
(* C14: a write that reports an error has written nothing.  On the         *)
(* contract a step that changes the state is a successful transaction (it  *)
(* emits its event).  On the API a create or PUT handler that answers an   *)
(* error (status 400 or more) has inserted no entry and has saved no       *)
(* changed path of the entry it loaded.                                    *)
WroteRecord(r) ==
    /\ req[r].pc = "log"
    /\ req[r].kind = "create" \/ req[r].doc.modified # {}

C14_StepOk ==
    /\ (side = "chain" /\ chainVars' # chainVars)
          => Len(events') = Len(events) + 1
    /\ \A r \in Slots :
          (/\ side = "mirror"
           /\ req[r].kind \in {"create", "put"}
           /\ req'[r] # req[r]
           /\ req'[r].pc = "idle"
           /\ response'.status >= 400)
             => /\ ~WroteRecord(r)
                /\ dbDocs' = dbDocs

\* C14: an operation that reports an error leaves the records as they were
C14_ErrorMeansUnchanged == [][C14_StepOk]_vars

---------------------------------------------------------------------------
(* C15: the end-to-end scenario on the contract.  After I1 stores F1 for   *)
(* U1 and U1 transfers it to U2, verifyDocument(F1) reports an active      *)
(* document with owner U2, issuer I1 and version 1; after I1 then revokes  *)
(* it, verifyDocument(F1) reports a revoked document whose owner is U2.    *)
ScenarioStored ==
    /\ Len(events) >= 1
    /\ events[1].name = "DocumentStored"
    /\ events[1].documentHash = HashLower
    /\ events[1].issuer = "I1"
    /\ events[1].owner = "U1"

ScenarioTransferred ==
    /\ ScenarioStored
    /\ Len(events) >= 2
    /\ events[2].name = "DocumentTransferred"
    /\ events[2].documentHash = HashLower
    /\ events[2].from = "U1"
    /\ events[2].to = "U2"

ScenarioRevoked ==
    /\ ScenarioTransferred
    /\ Len(events) >= 3
    /\ events[3].name = "DocumentRevoked"
    /\ events[3].documentHash = HashLower
    /\ events[3].revokedBy = "I1"

\* the scenario's answers, but for the version
C15_ScenarioAnswers ==
    /\ (ScenarioTransferred /\ Len(events) = 2)
          => /\ verifyDocument(HashLower).exists
             /\ verifyDocument(HashLower).isActive
             /\ verifyDocument(HashLower).owner = "U2"
             /\ verifyDocument(HashLower).issuer = "I1"
    /\ (ScenarioRevoked /\ Len(events) = 3)
          => /\ verifyDocument(HashLower).exists
             /\ ~verifyDocument(HashLower).isActive
             /\ verifyDocument(HashLower).owner = "U2"

\* C15: the scenario's answers, the version among them
C15_EndToEnd ==
    /\ C15_ScenarioAnswers
    /\ (ScenarioTransferred /\ Len(events) = 2)
          => /\ "version" \in DOMAIN verifyDocument(HashLower)
             /\ verifyDocument(HashLower).version = 1

---------------------------------------------------------------------------
(* C16: create then get.  After a successful storeDocument of a valid      *)
(* fingerprint that held no document, verifyDocument of it reports an      *)
(* active document with the owner and the metadata given to storeDocument, *)
(* the sender as issuer, and version 0.                                    *)
\* the record read back, but for the version
C16_ReadBack ==
    \A sender \in StoreSenders, h \in StoredHashes, m \in Metadatas,
       o \in StoreOwners :
        (/\ side = "chain"
         /\ chainVars' # chainVars
         /\ IsValidHash(h)
         /\ ~DocExists(h)
         /\ storeDocument(sender, h, m, o))
           => /\ verifyDocument(h)'.exists
              /\ verifyDocument(h)'.isActive
              /\ verifyDocument(h)'.owner = o
              /\ verifyDocument(h)'.metadata = m
              /\ verifyDocument(h)'.issuer = sender

C16_Versioned ==
    \A h \in StoredHashes :
        (side = "chain" /\ ~DocExists(h) /\ DocExists(h)')
           => /\ "version" \in DOMAIN verifyDocument(h)'
              /\ verifyDocument(h)'.version = 0

\* C16: a created record reads back active, with its owner and metadata,
\* at version 0
C16_CreateThenGet == [][C16_ReadBack /\ C16_Versioned]_vars

---------------------------------------------------------------------------
(* C17: the issuer is the creator, for good.  On the contract a stored     *)
(* document's issuer is the sender of its storeDocument, and no step       *)
(* changes the issuer of an existing document.  On the API an inserted     *)
(* entry's issuer and issuerAddress are those of the create request (the   *)
(* address in lower case), and no step changes them on an existing entry.  *)
C17_StepOk ==
    /\ (side = "chain" /\ chainVars' # chainVars)
          => /\ \A h \in StoredHashes :
                   DocExists(h) => documents'[h].issuer = documents[h].issuer
             /\ \A sender \in StoreSenders, h \in StoredHashes,
                   m \in Metadatas, o \in StoreOwners :
                   (~DocExists(h) /\ storeDocument(sender, h, m, o))
                      => documents'[h].issuer = sender
    /\ (side = "mirror" /\ dbDocs' # dbDocs)
          => /\ \A i \in 1..Len(dbDocs) :
                   /\ dbDocs'[i].issuerAddress = dbDocs[i].issuerAddress
                   /\ dbDocs'[i].issuer = dbDocs[i].issuer
             /\ \A r \in Slots :
                   (/\ req[r].kind = "create"
                    /\ req'[r] # req[r]
                    /\ Len(dbDocs') = Len(dbDocs) + 1)
                      => /\ dbDocs'[Len(dbDocs')].issuerAddress =
                               ToLowerCase(req[r].body.issuerAddress)
                         /\ dbDocs'[Len(dbDocs')].issuer = req[r].body.issuer

\* C17: a record's issuer is its creator and never changes
C17_IssuerImmutable == [][C17_StepOk]_vars

\* C17: an entry created by the issuer has since been transferred and
\* revoked, and its issuer is still the one that created it
C17_Witness ==
    \E i \in 1..Len(dbDocs) :
        /\ dbDocs[i].issuerAddress = AddrIssuer
        /\ dbDocs[i].ownerAddress = AddrOwner2
        /\ ~dbDocs[i].isActive

---------------------------------------------------------------------------
(* C18: the owner is never the null identity.  On the contract every       *)
(* existing document's owner differs from address(0); a storeDocument with *)
(* owner address(0) always reverts, with "Invalid owner address" when the  *)
(* key is of the right length and free, and a transferDocument to          *)
(* address(0) always reverts; neither changes the state.  On the API every *)
(* entry's ownerAddress is an address and its owner name is not empty.     *)
C18_StateOk ==
    /\ \A h \in HashInputs : DocExists(h) => documents[h].owner # ZeroAddress
    /\ \A sender \in Accounts, h \in HashInputs, m \in Metadatas :
          /\ StoreRevert(sender, h, m, ZeroAddress) # ""
          /\ (Len(h) = HashLen /\ ~DocExists(h))
                => StoreRevert(sender, h, m, ZeroAddress) =
                      "Invalid owner address"
    /\ \A sender \in Accounts, h \in StoredHashes :
          TransferRevert(sender, h, ZeroAddress) # ""
    /\ \A i \in 1..Len(dbDocs) :
          /\ IsValidAddress(dbDocs[i].ownerAddress)
          /\ dbDocs[i].owner # ""

C18_StepOk ==
    (side = "chain" /\ chainVars' # chainVars)
       => /\ \A sender \in StoreSenders, h \in HashInputs, m \in Metadatas :
                ~storeDocument(sender, h, m, ZeroAddress)
          /\ \A sender \in Accounts, h \in StoredHashes :
                ~transferDocument(sender, h, ZeroAddress)

---------------------------------------------------------------------------
(* C19: no transfer to oneself.  A transferDocument of an active document  *)
(* by its owner to that same owner reverts on the new owner, changes no    *)
(* state and emits no DocumentTransferred event.                           *)
C19_StepOk ==
    \A h \in StoredHashes :
        (/\ side = "chain"
         /\ DocExists(h)
         /\ documents[h].isActive
         /\ transferDocument(documents[h].owner, h, documents[h].owner))
           => /\ TransferRevert(documents[h].owner, h, documents[h].owner) =
                    "Invalid new owner address"
              /\ UNCHANGED chainVars

\* C19: a transfer to the current owner is refused and leaves no trace
C19_NoSelfTransfer == [][C19_StepOk]_vars

---------------------------------------------------------------------------
(* C20: the effect of a successful transfer.  A step that emits a          *)
(* DocumentTransferred event emits exactly that one event, whose `from` is *)
(* the document's owner before the step and whose `to` is its owner after  *)
(* it; the hash is taken out of the `from` owner's list and put into the   *)
(* `to` owner's list, so that it is in the new owner's list once and, when *)
(* the two differ, no longer in the old owner's; nothing else changes.     *)
CountIn(docs, h) == Cardinality({i \in 1..Len(docs) : docs[i] = h})

EmitsTransferred ==
    /\ side = "chain"
    /\ Len(events') = Len(events) + 1
    /\ events'[Len(events')].name = "DocumentTransferred"

C20_StepOk ==
    EmitsTransferred =>
        LET e == events'[Len(events')]
            h == e.documentHash
        IN /\ SubSeq(events', 1, Len(events)) = events
           /\ DocExists(h)
           /\ e.from = documents[h].owner
           /\ e.to = documents'[h].owner
           /\ documents' = [documents EXCEPT ![h].owner = e.to]
           /\ issuerDocuments' = issuerDocuments
           /\ \A a \in Addresses, g \in StoredHashes :
                 CountIn(ownerDocuments'[a], g) =
                    CountIn(ownerDocuments[a], g)
                       - (IF a = e.from /\ g = h THEN 1 ELSE 0)
                       + (IF a = e.to /\ g = h THEN 1 ELSE 0)
           /\ CountIn(ownerDocuments'[e.to], h) = 1
           /\ e.from # e.to => CountIn(ownerDocuments'[e.from], h) = 0

\* C20: a transfer moves the hash between the owner lists, sets the owner
\* and emits one event naming both owners
C20_TransferEffect == [][C20_StepOk]_vars

\* C20: the last transaction transferred a document between two different
\* owners, and the old owner still holds another document
C20_Witness ==
    /\ Len(events) > 0
    /\ events[Len(events)].name = "DocumentTransferred"
    /\ events[Len(events)].from # events[Len(events)].to
    /\ Len(ownerDocuments[events[Len(events)].from]) > 0

---------------------------------------------------------------------------
(* C21: replay of the event log.  The by-owner and by-issuer index built   *)
(* by applying the emitted events in order to an empty index (a Stored     *)
(* event enters the fingerprint under its owner and its issuer, a          *)
(* Transferred event moves it from `from` to `to`, a Revoked event leaves  *)
(* the index alone) holds, for every address, the set of fingerprints of   *)
(* the contract's ownerDocuments and issuerDocuments lists.  A call that   *)
(* reverts emits nothing and changes nothing, so it is a stuttering step.  *)
EmptyIndex ==
    [owners |-> [a \in Addresses |-> {}], issuers |-> [a \in Addresses |-> {}]]

ApplyEvent(idx, e) ==
    IF e.name = "DocumentStored"
    THEN [owners |-> [idx.owners EXCEPT ![e.owner] = @ \cup {e.documentHash}],
          issuers |->
             [idx.issuers EXCEPT ![e.issuer] = @ \cup {e.documentHash}]]
    ELSE IF e.name = "DocumentTransferred"
    THEN [idx EXCEPT !.owners =
             [[idx.owners EXCEPT ![e.from] = @ \ {e.documentHash}]
                 EXCEPT ![e.to] = @ \cup {e.documentHash}]]
    ELSE idx

RECURSIVE Replay(_)
Replay(n) == IF n = 0 THEN EmptyIndex ELSE ApplyEvent(Replay(n - 1), events[n])

\* the set of elements of a list
SetOf(docs) == {docs[i] : i \in 1..Len(docs)}

---------------------------------------------------------------------------
(* C22: the by-owner query.  getDocumentsByOwner returns the owner's list; *)
(* the schema's findByOwner returns the active entries with that           *)
(* ownerAddress.                                                           *)
getDocumentsByOwner(owner) == ownerDocuments[owner]

\* Document.findByOwner(ownerAddress): find({ ownerAddress, isActive: true })
findByOwner(ownerAddress) ==
    {dbDocs[i].documentHash : i \in
        {j \in 1..Len(dbDocs) :
            dbDocs[j].ownerAddress = ownerAddress /\ dbDocs[j].isActive}}

\* once in an owner's result, a fingerprint stays in it
C22_StepOk ==
    /\ side = "chain" =>
          \A a \in Addresses :
              SetOf(getDocumentsByOwner(a)) \subseteq
                  SetOf(getDocumentsByOwner(a))'
    /\ (side = "mirror" /\ dbDocs' # dbDocs) =>
          \A a \in {AddrOwner1, AddrOwner2} :
              findByOwner(a) \subseteq findByOwner(a)'

\* C22: the by-owner result holds every fingerprint the owner owns or
\* formerly owned: nothing ever leaves it
C22_FormerlyOwnedListed == [][C22_StepOk]_vars

\* C22 (amended): getDocumentsByOwner returns exactly the fingerprints whose
\* record names that address as its current owner, revoked ones included;
\* a fingerprint transferred to another owner is not in the former owner's
\* result
C22_CurrentlyOwnedListed ==
    side = "chain" =>
        \A a \in Addresses :
            SetOf(getDocumentsByOwner(a)) =
                {h \in HashInputs : DocExists(h) /\ documents[h].owner = a}

\* C22: a document transferred to another account and then revoked is
\* listed for its new owner and not for its former owner
C22_Witness ==
    \E i \in 1..Len(events) :
        /\ events[i].name = "DocumentTransferred"
        /\ events[i].from # events[i].to
        /\ events[i].documentHash \in SetOf(getDocumentsByOwner(events[i].to))
        /\ events[i].documentHash \notin
              SetOf(getDocumentsByOwner(events[i].from))
        /\ ~documents[events[i].documentHash].isActive

---------------------------------------------------------------------------
(* C23: the mirror follows the ledger.  The API routes never call the      *)
(* contract and the contract never calls the API, so a behaviour of the    *)
(* API alone is a behaviour of the whole system in which the ledger takes  *)
(* no step.  If the mirror held only values the ledger held at some point, *)
(* every entry of the Document collection would be the entry of a          *)
(* fingerprint the contract has a record for.                              *)
\* C23: the mirror holds no record the ledger never held
C23_MirrorFollowsLedger ==
    \A i \in 1..Len(dbDocs) : DocExists(dbDocs[i].documentHash)

---------------------------------------------------------------------------
(* C24: the total-document count.  getTotalDocuments declares a local      *)
(* count, sets it to 0 and returns it; the contract keeps no counter.      *)
getTotalDocuments == LET count == 0 IN count

\* the successful storeDocument calls so far: each emitted one DocumentStored
SuccessfulCreates ==
    Cardinality({i \in 1..Len(events) : events[i].name = "DocumentStored"})

\* C24: the total-document count equals the number of successful creates
C24_TotalCountsCreates ==
    side = "chain" => getTotalDocuments = SuccessfulCreates

---------------------------------------------------------------------------
(* C25: the fingerprint format check.  isValidHash (and the same regular   *)
(* expression in the routes) accepts a string exactly when its lowercased  *)
(* form is 64 characters, each one of 0-9 or a-f; so it rejects the empty  *)
(* string, every other length and every string with another character.    *)
LowercaseHex64(hash) ==
    LET lower == ToLowerCase(hash) IN
    /\ Len(lower) = 64
    /\ \A i \in 1..Len(lower) :
          lower[i] \in {"0", "1", "2", "3", "4", "5", "6", "7", "8", "9",
                        "a", "b", "c", "d", "e", "f"}

\* C25: isValidHash accepts exactly the strings that are 64 lowercase
\* hexadecimal characters after lowercasing
C25_HashFormat ==
    checked.called =>
        /\ checked.valid <=> LowercaseHex64(checked.hash)
        /\ checked.hash = <<>> => ~checked.valid
        /\ Len(checked.hash) # 64 => ~checked.valid
        /\ (\E i \in 1..Len(checked.hash) :
               checked.hash[i] \in {"g", "G", "x", "X"}) => ~checked.valid

\* C25: a digest with letters of both cases and a digit was accepted
C25_Witness ==
    /\ checked.called
    /\ checked.valid
    /\ \E i, j \in 1..Len(checked.hash) :
          checked.hash[i] = "F" /\ checked.hash[j] = "a"

---------------------------------------------------------------------------
(* C26: the owner and issuer indexes of the contract.  Every fingerprint   *)
(* that has a record is once in the ownerDocuments list of its current     *)
(* owner and in no other owner's list, and once in the issuerDocuments     *)
(* list of its issuer and in no other issuer's list, whether the record is *)
(* active or revoked and whatever transfers have happened.                 *)
\* C26: each recorded fingerprint is indexed once, under its owner and
\* under its issuer
C26_IndexInvariant ==
    side = "chain" =>
        \A h \in HashInputs :
            DocExists(h) =>
                \A a \in Addresses :
                    /\ CountIn(ownerDocuments[a], h) =
                          (IF a = documents[h].owner THEN 1 ELSE 0)
                    /\ CountIn(issuerDocuments[a], h) =
                          (IF a = documents[h].issuer THEN 1 ELSE 0)

\* C26: a document was transferred by its owner to itself and then revoked
C26_Witness ==
    /\ \E i \in 1..Len(events) :
          /\ events[i].name = "DocumentTransferred"
          /\ events[i].from = events[i].to
          /\ ~documents[events[i].documentHash].isActive
          /\ CountIn(ownerDocuments[events[i].to], events[i].documentHash) = 1

---------------------------------------------------------------------------
(* C27: event ordering per fingerprint on the contract.  A call that       *)
(* changes the contract's state appends exactly one event and a call that  *)
(* appends none changes nothing; the events of one key are a               *)
(* DocumentStored first, DocumentTransferred events after it, and at most  *)
(* one DocumentRevoked, which is the last.  A key is the string the        *)
(* contract stores under; letter case is C8's subject.                     *)
\* the positions in the event log of the events of h
EventsOf(h) == {i \in 1..Len(events) : events[i].documentHash = h}

C27_StateOk ==
    side = "chain" =>
        \A h \in HashInputs :
            \A i \in EventsOf(h) :
                /\ events[i].name = "DocumentStored"
                      <=> \A j \in EventsOf(h) : i <= j
                /\ events[i].name = "DocumentRevoked"
                      => \A j \in EventsOf(h) : j <= i
                /\ events[i].name \in
                      {"DocumentStored", "DocumentTransferred",
                       "DocumentRevoked"}

C27_StepOk ==
    (side = "chain" /\ chainVars' # chainVars) =>
        /\ Len(events') = Len(events) + 1
        /\ SubSeq(events', 1, Len(events)) = events
        /\ LET e == events'[Len(events')]
               h == e.documentHash
           IN /\ \A g \in HashInputs \ {h} : documents'[g] = documents[g]
              /\ e.name = "DocumentStored" =>
                    ~DocExists(h) /\ documents'[h].isActive
              /\ e.name = "DocumentTransferred" =>
                    /\ documents[h].isActive
                    /\ documents' = [documents EXCEPT ![h].owner = e.to]
              /\ e.name = "DocumentRevoked" =>
                    /\ documents[h].isActive
                    /\ documents' = [documents EXCEPT ![h].isActive = FALSE]

\* C27: one event per successful call, none per failed call, and per key
\* the order Stored, Transferred*, at most one Revoked
C27_EventOrdering == []C27_StateOk /\ [][C27_StepOk]_vars

\* C27: one key was stored, transferred and revoked, in that order
C27_Witness ==
    \E h \in HashInputs :
        /\ EventsOf(h) = {1, 2, 3}
        /\ events[1].name = "DocumentStored"
        /\ events[2].name = "DocumentTransferred"
        /\ events[3].name = "DocumentRevoked"

---------------------------------------------------------------------------
(* C28: authorization follows the current owner.  F was transferred from   *)
(* U1 to U2, U1 is neither U2 nor the issuer, and U2 is still the owner.   *)
(* Then every transfer and every revoke of F sent by U1 is refused; while  *)
(* F is active U2's revoke and U2's transfers to a non-zero address are    *)
(* accepted, and so is the issuer's revoke.                                *)
\* the Transferred events that made the current owner of h its owner, sent
\* by a former owner who is neither the new owner nor the issuer
HandOvers(h) ==
    {i \in EventsOf(h) :
        /\ events[i].name = "DocumentTransferred"
        /\ events[i].to = documents[h].owner
        /\ events[i].from # events[i].to
        /\ events[i].from # documents[h].issuer}

C28_OwnersRights(h, U1, U2) ==
    /\ \A n \in Addresses : TransferRevert(U1, h, n) # ""
    /\ RevokeRevert(U1, h) # ""
    /\ documents[h].isActive =>
          /\ RevokeRevert(U2, h) = ""
          /\ \A n \in Addresses \ {ZeroAddress} : TransferRevert(U2, h, n) = ""
          /\ RevokeRevert(documents[h].issuer, h) = ""

\* C28: after a transfer from U1 to U2 the former owner has no rights, the
\* new owner can transfer and revoke, and the issuer can revoke but never
\* transfer
C28_AuthorizationFollowsOwner ==
    side = "chain" =>
        \A h \in StoredHashes : \A i \in HandOvers(h) :
            /\ C28_OwnersRights(h, events[i].from, events[i].to)
            /\ documents[h].isActive =>
                  \A n \in Addresses :
                      TransferRevert(documents[h].issuer, h, n) # ""

\* C28 (amended): the same, where the issuer cannot transfer unless the
\* issuer is the new owner
C28_IssuerTransfersOnlyAsOwner ==
    side = "chain" =>
        \A h \in StoredHashes : \A i \in HandOvers(h) :
            /\ C28_OwnersRights(h, events[i].from, events[i].to)
            /\ (documents[h].isActive /\ documents[h].issuer # events[i].to) =>
                  \A n \in Addresses :
                      TransferRevert(documents[h].issuer, h, n) # ""

\* C28: an active document was handed from U1 to U2, neither the issuer
C28_Witness ==
    \E h \in StoredHashes : \E i \in HandOvers(h) :
        /\ documents[h].isActive
        /\ documents[h].issuer # events[i].to

---------------------------------------------------------------------------
(* C29: FileUpload writes a result to the entry of its own file.  Every    *)
(* entry of uploadedFiles that carries a hash carries the hash of its own  *)
(* file, and every entry that carries a transaction hash or the 'success'  *)
(* status carries the transaction hash made from the hash of its own file, *)
(* whatever the interleaving of drops, hashing, uploads and removals.      *)
\* C29: no hash, 'success' status or transaction hash on another file's
\* entry
C29_ResultsOnOwnEntry ==
    \A idx \in 1..Len(uploadedFiles) :
        LET f == uploadedFiles[idx] IN
        /\ f.hash # NoHash => f.hash = hashFile(f.file)
        /\ (f.transactionHash # NoTransaction \/ f.status = "success") =>
              f.transactionHash = mockTxHash(hashFile(f.file))

---------------------------------------------------------------------------
(* C30: the verification counter counts the completed counter updates.     *)
(* A step in which a verify handler completes incrementVerification on an  *)
(* entry raises that entry's stored verificationCount by one, and no other *)
(* step changes a stored verificationCount: not a verify of a revoked or   *)
(* unregistered fingerprint, not a create, not a revoke or a transfer.     *)
\* the verify handlers that complete their counter update on entry i in
\* this step
CompletesIncrement(i) ==
    {r \in Slots :
        /\ req[r].kind = "verify"
        /\ req[r].pc = "increment"
        /\ req'[r].pc = "log"
        /\ req[r].doc.id = i}

C30_StepOk ==
    side = "mirror" =>
        \A i \in 1..Len(dbDocs) :
            dbDocs'[i].verificationCount =
                dbDocs[i].verificationCount + Cardinality(CompletesIncrement(i))

\* C30: every completed counter update adds one to the stored count and
\* nothing else changes it
C30_NoLostIncrement == [][C30_StepOk]_vars

===========================================================================
